---- MODULE Spec2Model ----
(***************************************************************************)
(* The clubs pallet (pallets/clubs/src/lib.rs): the five dispatchable      *)
(* calls over the Clubs counted map, the Members double map, the balance   *)
(* ledger the fees are withdrawn from, the block number and the event log. *)
(*                                                                         *)
(* The integer types are scaled down so that their extremes are reached:   *)
(* ClubId (u32) ranges over 0..ClubIdMax, BlockNumber (u64 in the mock)    *)
(* over 0..BlockNumberMax, Balance (u128 in the mock) over 0..BalanceMax.  *)
(* The runtime constants of mock.rs are scaled with them.                  *)
(***************************************************************************)
EXTENDS Integers, Sequences, FiniteSets, TLC

\* ---------------------------------------------------------------- bounds
MaxBlock == 3           \* the clock is advanced up to this block
MaxEventsPerBlock == 1  \* successful calls that deposit an event, per block
MaxMembers == 1         \* membership records held at once
MaxBlockShort == 1      \* the shorter clock of SpecDefaultMember and SpecShortClock
MaxClubsShort == 1      \* SpecDefaultMember: club records held at once
MaxMembersWide == 2     \* SpecDefaultMember: membership records held at once
MaxEventsWide == 2      \* events per block in SpecDefaultMember and SpecShortClock

\* ------------------------------------------------- types and configuration
ClubIdMax == 2          \* u32::MAX, scaled
BlockNumberMax == 6     \* BlockNumber::MAX, scaled
BalanceMax == 7         \* Balance::MAX, scaled

ExistentialDeposit == 1
ClubCreationFee == 2
BlocksPerYear == 2
MaxSubscriptionLength == 2
InitialBalance == 5

\* The accounts of the mock (ord_parameter_types).
Alice == 1
Bob == 2
Dave == 3

Accounts == {Alice, Bob, Dave}
\* The club name of the mock's default club: [0, 1].
Names == {<<0, 1>>}
ClubIds == 1..ClubIdMax
\* The `years` the tests pass run up to MaxSubscriptionLength + 1.
Years == 0..(MaxSubscriptionLength + 1)
\* RawOrigin: None written 0, Signed(a) written as the account a.
Origins == {0} \cup Accounts
\* The annual fees offered to set_annual_fee: free, the smallest fee, and a
\* fee whose double no longer fits the Balance type.
FeeInputs == {0, 1, (BalanceMax + 1) \div 2}

VARIABLES
    clubs,          \* Clubs: ClubId -> ClubDetails, the keys that hold a record
    clubCount,      \* Clubs::count(), the counter of the counted map
    members,        \* Members: (ClubId, AccountId) -> MemberDetails
    balances,       \* free balance of every account
    block_number,   \* frame_system block number, the logical clock
    events,         \* events deposited in the current block
    last,           \* the call being reported: its arguments and DispatchResult
    pre             \* the storage that call started from

vars == <<clubs, clubCount, members, balances, block_number, events, last, pre>>

\* Everything a call can read or write.
storage ==
    [clubs |-> clubs, clubCount |-> clubCount, members |-> members,
     balances |-> balances, block_number |-> block_number, events |-> events]

\* ------------------------------------------------------------- arithmetic
Min(a, b) == IF a < b THEN a ELSE b
Max(a, b) == IF a > b THEN a ELSE b

saturating_add(a, b, max) == Min(a + b, max)
saturating_sub(a, b) == Max(a - b, 0)
saturating_mul(a, b, max) == Min(a * b, max)

\* The outcomes of an unchecked `+` or `*` whose exact result is x in a type
\* with maximum max: a build with overflow checks panics, one without wraps.
UncheckedOutcomes(x, max) ==
    IF x <= max
    THEN {[panic |-> FALSE, val |-> x]}
    ELSE {[panic |-> TRUE, val |-> 0], [panic |-> FALSE, val |-> x % (max + 1)]}

\* ------------------------------------------------------------ collaborators
ensure_signed(origin) == origin \in Accounts

\* Faulty variant: every origin passes the RootOrigin check.
RootOrigin_ensure_origin_any(origin) == TRUE

\* RootOrigin of the mock: EnsureSignedBy<Alice>.
RootOrigin_ensure_origin(origin) == origin = Alice

\* Currency::withdraw(who, value, FEE, KeepAlive) on a free balance.
withdraw(free, value) ==
    IF value = 0 THEN [err |-> "Ok", free |-> free]
    ELSE IF free < value THEN [err |-> "InsufficientBalance", free |-> free]
    ELSE IF free - value < ExistentialDeposit /\ free >= ExistentialDeposit
        THEN [err |-> "KeepAlive", free |-> free]
    ELSE [err |-> "Ok", free |-> free - value]

\* Faulty variant: the event is never recorded.
deposit_event_dropped(ev) == events

\* frame_system deposit_event: nothing is recorded in the genesis block.
deposit_event(ev) ==
    IF block_number = 0 THEN events ELSE Append(events, ev)

\* CountedStorageMap::insert: the counter grows when the key is new.
Clubs_insert_count(id) == IF id \in DOMAIN clubs THEN clubCount ELSE clubCount + 1
Clubs_insert(id, club) ==
    [k \in DOMAIN clubs \cup {id} |-> IF k = id THEN club ELSE clubs[k]]

\* Faulty variant: the record is stored under the following club ID.
Members_insert_next_club(key, details) ==
    [k \in DOMAIN members \cup {<<key[1] + 1, key[2]>>} |->
        IF k = <<key[1] + 1, key[2]>> THEN details ELSE members[k]]

\* Faulty variant: the new record replaces the whole map.
Members_insert_alone(key, details) == [k \in {key} |-> details]

Members_insert(key, details) ==
    [k \in DOMAIN members \cup {key} |-> IF k = key THEN details ELSE members[k]]

\* Faulty variant: a new membership starts with one year paid.
MemberDetails_default_one_year == [expires_at |-> BlocksPerYear]

\* MemberDetails::default()
MemberDetails_default == [expires_at |-> 0]

\* No call is being reported.
NoCall == [op |-> "none"]
Idle == last = NoCall

\* The call returns `result`; `call` holds its name and arguments.
Returns(call, result) ==
    /\ last' = [call EXCEPT !.result = result]
    /\ pre' = storage

\* Faulty variant: a failing call deposits the InsufficientFunds event.
Fail_with_event(call, err) ==
    /\ Returns(call, err)
    /\ events' = Append(events, [kind |-> "InsufficientFunds"])
    /\ UNCHANGED <<clubs, clubCount, members, balances, block_number>>

\* A call that returns Err(err): nothing is written.
Fail(call, err) ==
    /\ Returns(call, err)
    /\ UNCHANGED <<clubs, clubCount, members, balances, block_number, events>>

\* ------------------------------------------------------------------- Init
Init ==
    /\ clubs = << >>
    /\ clubCount = 0
    /\ members = << >>
    /\ balances = [a \in Accounts |-> IF a \in {Alice, Bob} THEN InitialBalance ELSE 0]
    /\ block_number = 0
    /\ events = << >>
    /\ last = NoCall
    /\ pre = << >>

\* ------------------------------------------------------------ create_club
\* Faulty variant: the next ID wraps at the width of ClubId.
next_id_wrapping == (clubCount + 1) % (ClubIdMax + 1)

\* Faulty variant: the count itself is taken as the next ID.
next_id_is_count == saturating_add(clubCount, 0, ClubIdMax)

next_id == saturating_add(clubCount, 1, ClubIdMax)

\* Faulty variant: the creation fee is taken from the club's owner.
creation_fee_payer_is_owner(who, owner) == owner

\* lib.rs 204: the fee is withdrawn from `who`, the signer of the call.
creation_fee_payer(who, owner) == who

create_club(origin, name, owner) ==
    LET call == [op |-> "create_club", origin |-> origin, name |-> name,
                 owner |-> owner, result |-> "none"]
    IN
    IF ~RootOrigin_ensure_origin(origin) \/ ~ensure_signed(origin)
    THEN Fail(call, "BadOrigin")
    ELSE IF next_id \in DOMAIN clubs
    THEN Fail(call, "ClubIdOverflow")
    ELSE LET payer == creation_fee_payer(origin, owner)
             w == withdraw(balances[payer], ClubCreationFee) IN
         IF w.err # "Ok"
         THEN Fail(call, w.err)
         ELSE /\ balances' = [balances EXCEPT ![payer] = w.free]
              /\ clubCount' = Clubs_insert_count(next_id)
              /\ clubs' = Clubs_insert(next_id,
                            [name |-> name, owner |-> owner, annual_fee |-> 0])
              /\ events' = deposit_event(
                            [kind |-> "ClubCreated", id |-> next_id, owner |-> owner])
              /\ Returns(call, "Ok")
              /\ UNCHANGED <<members, block_number>>

\* ------------------------------------------------------------- add_member
\* Faulty variant: the owner check is missing.
is_club_owner_unchecked(club_id, who) == TRUE

\* lib.rs 247, 365, 407: the caller is the owner the club record holds.
is_club_owner(club_id, who) == clubs[club_id].owner = who

\* Faulty variant: the duplicate check is missing.
member_is_new_unchecked(club_id, member_id) == TRUE

\* lib.rs 250: Self::members(club_id, member_id).is_none()
member_is_new(club_id, member_id) == <<club_id, member_id>> \notin DOMAIN members

add_member(origin, club_id, member_id) ==
    LET call == [op |-> "add_member", origin |-> origin, club_id |-> club_id,
                 member_id |-> member_id, result |-> "none"]
    IN
    IF ~ensure_signed(origin)
    THEN Fail(call, "BadOrigin")
    ELSE IF club_id \notin DOMAIN clubs
    THEN Fail(call, "NotFound")
    ELSE IF ~is_club_owner(club_id, origin)
    THEN Fail(call, "NoPermission")
    ELSE IF ~member_is_new(club_id, member_id)
    THEN Fail(call, "AlreadyExists")
    ELSE /\ members' = Members_insert(<<club_id, member_id>>, MemberDetails_default)
         /\ events' = deposit_event(
                        [kind |-> "MemberAdded", id |-> club_id, member_id |-> member_id])
         /\ Returns(call, "Ok")
         /\ UNCHANGED <<clubs, clubCount, balances, block_number>>

\* ------------------------------------------------------ extend_membership
\* Faulty variant: every renewal restarts from the current block.
renewal_base_is_now(expires_at, current_block) == current_block

\* lib.rs 298-300: a lapsed membership restarts from the current block.
renewal_base(expires_at, current_block) ==
    IF expires_at < current_block THEN current_block ELSE expires_at

\* Faulty variant: the years are counted from block 0, not the current block.
current_len_from_genesis(expires_at, current_block) == expires_at \div BlocksPerYear

\* lib.rs 301: the whole years an active membership still has.
current_len(expires_at, current_block) ==
    saturating_sub(expires_at, current_block) \div BlocksPerYear

\* Faulty variant: the years are counted from block 0, not from the base.
extended_expires_at_without_base(base, years) ==
    saturating_mul(BlocksPerYear, years, BlockNumberMax)

\* Faulty variant: the sum wraps at the width of the block number.
extended_expires_at_wrapping(base, years) ==
    (base + BlocksPerYear * years) % (BlockNumberMax + 1)

\* lib.rs 307-308
extended_expires_at(base, years) ==
    saturating_add(base, saturating_mul(BlocksPerYear, years, BlockNumberMax),
                   BlockNumberMax)

\* Faulty variant: at least one year is charged.
amount_due_at_least_one_year(annual_fee, years) ==
    UncheckedOutcomes(annual_fee * Max(years, 1), BalanceMax)

\* lib.rs 317: annual_fee * years, an unchecked multiplication of Balances.
amount_due(annual_fee, years) == UncheckedOutcomes(annual_fee * years, BalanceMax)

\* lib.rs 303: current_len + years, an unchecked addition of BlockNumbers.
cumulative_len(len, years) == UncheckedOutcomes(len + years, BlockNumberMax)

\* lib.rs 325-331: the write and the event once the fee is paid.
extend_commit(call, expires_at, free) ==
    /\ balances' = [balances EXCEPT ![call.origin] = free]
    /\ members' = Members_insert(<<call.club_id, call.origin>>,
                                 [expires_at |-> expires_at])
    /\ events' = deposit_event([kind |-> "MembershipExtended", id |-> call.club_id,
                                member_id |-> call.origin, expires_at |-> expires_at])
    /\ Returns(call, "Ok")
    /\ UNCHANGED <<clubs, clubCount, block_number>>

\* Faulty variant: the new expiry is written before the fee is withdrawn.
extend_pay_after_write(call, expires_at) ==
    \E due \in amount_due(clubs[call.club_id].annual_fee, call.years) :
        IF due.panic
        THEN Fail(call, "Panic")
        ELSE LET w == withdraw(balances[call.origin], due.val) IN
             IF w.err # "Ok"
             THEN /\ Returns(call, w.err)
                  /\ members' = Members_insert(<<call.club_id, call.origin>>,
                                               [expires_at |-> expires_at])
                  /\ UNCHANGED <<clubs, clubCount, balances, block_number, events>>
             ELSE extend_commit(call, expires_at, w.free)

\* lib.rs 310-323: the withdrawal of the fee, then the commit.
extend_pay(call, expires_at) ==
    IF call.club_id \in DOMAIN clubs
    THEN \E due \in amount_due(clubs[call.club_id].annual_fee, call.years) :
            IF due.panic
            THEN Fail(call, "Panic")
            ELSE LET w == withdraw(balances[call.origin], due.val) IN
                 IF w.err # "Ok"
                 THEN Fail(call, w.err)
                 ELSE extend_commit(call, expires_at, w.free)
    ELSE \* defensive!("Club exists; qed"): a debug build panics, a release
         \* build logs and goes on without a withdrawal.
         \/ Fail(call, "Panic")
         \/ extend_commit(call, expires_at, balances[call.origin])

\* Faulty variant: the record is looked up by the account alone.
Members_get_any_club(club_id, who) ==
    {members[k] : k \in {j \in DOMAIN members : j[2] = who}}

\* lib.rs 288: Self::members(club_id, who), an Option written as a set with
\* at most one element.
Members_get(club_id, who) ==
    IF <<club_id, who>> \in DOMAIN members THEN {members[<<club_id, who>>]} ELSE {}

extend_membership(origin, club_id, years) ==
    LET call == [op |-> "extend_membership", origin |-> origin, club_id |-> club_id,
                 years |-> years, result |-> "none"]
    IN
    IF ~ensure_signed(origin)
    THEN Fail(call, "BadOrigin")
    ELSE IF ~(years <= MaxSubscriptionLength)
    THEN Fail(call, "SubscriptionTooLong")
    ELSE IF Members_get(club_id, origin) = {}
    THEN Fail(call, "NotFound")
    ELSE LET stored == (CHOOSE d \in Members_get(club_id, origin) : TRUE).expires_at
             base == renewal_base(stored, block_number)
             expires_at == extended_expires_at(base, years)
         IN  IF stored < block_number
             THEN extend_pay(call, expires_at)
             ELSE \E sum \in cumulative_len(current_len(stored, block_number), years) :
                    IF sum.panic
                    THEN Fail(call, "Panic")
                    ELSE IF ~(sum.val <= MaxSubscriptionLength)
                    THEN Fail(call, "SubscriptionTooLong")
                    ELSE extend_pay(call, expires_at)

\* ----------------------------------------------------- transfer_ownership
\* Faulty variant: the record is rebuilt around the new owner, without its name.
Clubs_set_owner_unnamed(club_id, owner_id) ==
    [clubs EXCEPT ![club_id] =
        [name |-> << >>, owner |-> owner_id, annual_fee |-> @.annual_fee]]

\* Faulty variant: the record is rebuilt as at creation, losing the fee.
Clubs_set_owner_rebuilt(club_id, owner_id) ==
    [clubs EXCEPT ![club_id] =
        [name |-> @.name, owner |-> owner_id, annual_fee |-> 0]]

\* Clubs::mutate(club_id, |c| c.owner = owner_id)
Clubs_set_owner(club_id, owner_id) == [clubs EXCEPT ![club_id].owner = owner_id]

\* Faulty variant: the same-owner check is missing.
is_other_account_unchecked(who, owner_id) == TRUE

\* lib.rs 359: who != owner_id
is_other_account(who, owner_id) == who # owner_id

transfer_ownership(origin, club_id, owner_id) ==
    LET call == [op |-> "transfer_ownership", origin |-> origin, club_id |-> club_id,
                 owner_id |-> owner_id, result |-> "none"]
    IN
    IF ~ensure_signed(origin)
    THEN Fail(call, "BadOrigin")
    ELSE IF ~is_other_account(origin, owner_id)
    THEN Fail(call, "SameOwner")
    ELSE IF club_id \notin DOMAIN clubs
    THEN Fail(call, "NotFound")
    ELSE IF ~is_club_owner(club_id, origin)
    THEN Fail(call, "NoPermission")
    ELSE /\ clubs' = Clubs_set_owner(club_id, owner_id)
         /\ events' = deposit_event(
                        [kind |-> "OwnershipTransferred", id |-> club_id, owner |-> owner_id])
         /\ Returns(call, "Ok")
         /\ UNCHANGED <<clubCount, members, balances, block_number>>

\* --------------------------------------------------------- set_annual_fee
\* Faulty variant: the fee is written to every club, not to the one named.
Clubs_set_annual_fee_everywhere(club_id, annual_fee) ==
    [c \in DOMAIN clubs |-> [clubs[c] EXCEPT !.annual_fee = annual_fee]]

\* Clubs::mutate(club_id, |c| c.annual_fee = annual_fee)
Clubs_set_annual_fee(club_id, annual_fee) ==
    [clubs EXCEPT ![club_id].annual_fee = annual_fee]

\* Faulty variant: the same-fee check is missing.
is_other_fee_unchecked(stored_fee, annual_fee) == TRUE

\* lib.rs 408: club.annual_fee != annual_fee
is_other_fee(stored_fee, annual_fee) == stored_fee # annual_fee

set_annual_fee(origin, club_id, annual_fee) ==
    LET call == [op |-> "set_annual_fee", origin |-> origin, club_id |-> club_id,
                 annual_fee |-> annual_fee, result |-> "none"]
    IN
    IF ~ensure_signed(origin)
    THEN Fail(call, "BadOrigin")
    ELSE IF club_id \notin DOMAIN clubs
    THEN Fail(call, "NotFound")
    ELSE IF ~is_club_owner(club_id, origin)
    THEN Fail(call, "NoPermission")
    ELSE IF ~is_other_fee(clubs[club_id].annual_fee, annual_fee)
    THEN Fail(call, "SameFee")
    ELSE /\ clubs' = Clubs_set_annual_fee(club_id, annual_fee)
         /\ events' = deposit_event(
                        [kind |-> "AnnualFeeChanged", id |-> club_id, annual_fee |-> annual_fee])
         /\ Returns(call, "Ok")
         /\ UNCHANGED <<clubCount, members, balances, block_number>>

\* ----------------------------------------------------------------- clock
\* A new block: the block number grows and the block's event log starts empty.
Tick ==
    /\ Idle
    /\ block_number < MaxBlock
    /\ block_number' = block_number + 1
    /\ events' = << >>
    /\ UNCHANGED <<clubs, clubCount, members, balances, last, pre>>

\* The DispatchResult goes back to the caller; the next call can be dispatched.
Return ==
    /\ ~Idle
    /\ last' = NoCall
    /\ pre' = << >>
    /\ UNCHANGED <<clubs, clubCount, members, balances, block_number, events>>

\* Calls are dispatched one at a time, each to completion.
Next ==
    \/ Idle /\ \E o \in Origins, n \in Names, w \in Accounts :
                create_club(o, n, w) /\ Len(events') <= MaxEventsPerBlock
    \/ Idle /\ \E o \in Origins, c \in ClubIds, m \in Accounts :
                /\ add_member(o, c, m)
                /\ Len(events') <= MaxEventsPerBlock
                /\ Cardinality(DOMAIN members') <= MaxMembers
    \/ Idle /\ \E o \in Origins, c \in ClubIds, y \in Years :
                extend_membership(o, c, y) /\ Len(events') <= MaxEventsPerBlock
    \/ Idle /\ \E o \in Origins, c \in ClubIds, w \in Accounts :
                transfer_ownership(o, c, w) /\ Len(events') <= MaxEventsPerBlock
    \/ Idle /\ \E o \in Origins, c \in ClubIds, f \in FeeInputs :
                set_annual_fee(o, c, f) /\ Len(events') <= MaxEventsPerBlock
    \/ Tick
    \/ Return

Spec == Init /\ [][Next]_vars

\* ------------------------------------------------- a club with a member
\* The state ExtBuilder::with_default_member builds: Alice has created the
\* default club for Bob and Bob has added Dave to it.
InitDefaultMember ==
    /\ clubs = (1 :> [name |-> <<0, 1>>, owner |-> Bob, annual_fee |-> 0])
    /\ clubCount = 1
    /\ members = (<<1, Dave>> :> MemberDetails_default)
    /\ balances = [a \in Accounts |->
                     IF a = Alice THEN InitialBalance - ClubCreationFee
                     ELSE IF a = Bob THEN InitialBalance ELSE 0]
    /\ block_number = 0
    /\ events = << >>
    /\ last = NoCall
    /\ pre = << >>

\* The same calls, from that state: more membership records and more events
\* per block, a shorter clock and no second club.
NextDefaultMember ==
    \/ Idle /\ \E o \in Origins, n \in Names, w \in Accounts :
                /\ create_club(o, n, w)
                /\ Len(events') <= MaxEventsWide
                /\ clubCount' <= MaxClubsShort
    \/ Idle /\ \E o \in Origins, c \in ClubIds, m \in Accounts :
                /\ add_member(o, c, m)
                /\ Len(events') <= MaxEventsWide
                /\ Cardinality(DOMAIN members') <= MaxMembersWide
    \/ Idle /\ \E o \in Origins, c \in ClubIds, y \in Years :
                extend_membership(o, c, y) /\ Len(events') <= MaxEventsWide
    \/ Idle /\ \E o \in Origins, c \in ClubIds, w \in Accounts :
                transfer_ownership(o, c, w) /\ Len(events') <= MaxEventsWide
    \/ Idle /\ \E o \in Origins, c \in ClubIds, f \in FeeInputs :
                set_annual_fee(o, c, f) /\ Len(events') <= MaxEventsWide
    \/ Tick /\ block_number' <= MaxBlockShort
    \/ Return

SpecDefaultMember == InitDefaultMember /\ [][NextDefaultMember]_vars

\* --------------------------------------------------- several events a block
\* The calls from the genesis state, with a shorter clock and more events
\* per block.
NextShortClock ==
    \/ Idle /\ \E o \in Origins, n \in Names, w \in Accounts :
                /\ create_club(o, n, w)
                /\ Len(events') <= MaxEventsWide
    \/ Idle /\ \E o \in Origins, c \in ClubIds, m \in Accounts :
                /\ add_member(o, c, m)
                /\ Len(events') <= MaxEventsWide
                /\ Cardinality(DOMAIN members') <= MaxMembers
    \/ Idle /\ \E o \in Origins, c \in ClubIds, y \in Years :
                extend_membership(o, c, y) /\ Len(events') <= MaxEventsWide
    \/ Idle /\ \E o \in Origins, c \in ClubIds, w \in Accounts :
                transfer_ownership(o, c, w) /\ Len(events') <= MaxEventsWide
    \/ Idle /\ \E o \in Origins, c \in ClubIds, f \in FeeInputs :
                set_annual_fee(o, c, f) /\ Len(events') <= MaxEventsWide
    \/ Tick /\ block_number' <= MaxBlockShort
    \/ Return

SpecShortClock == Init /\ [][NextShortClock]_vars
\* ======================================================================
\* Properties.  `last` and `pre` describe the call just dispatched: its
\* arguments, its result and the storage it started from.
\* ======================================================================
Called(op) == last.op = op
Succeeded(op) == last.op = op /\ last.result = "Ok"
SignedCall(op) == last.op = op /\ last.origin \in Accounts

\* The errors of the pallet's own checks, and those of the balance ledger.
PreconditionErrors ==
    {"BadOrigin", "NotFound", "NoPermission", "AlreadyExists", "SameOwner",
     "SameFee", "SubscriptionTooLong", "ClubIdOverflow"}
LedgerErrors == {"InsufficientBalance", "KeepAlive"}

\* A withdrawal of `amount` with keep-alive cannot be served from `free`.
WithdrawalFails(free, amount) ==
    amount > 0 /\ (free < amount \/ free - amount < ExistentialDeposit)

\* The membership record the last extend_membership is about.
ExtKey == <<last.club_id, last.origin>>

\* ---------------------------------------------------------------- C1
\* C1: club IDs are assigned 1, 2, 3, ... without gaps or reuse: the k-th
\* successful create_club adds exactly the record of ID k, no other call adds
\* or removes a club ID, and in every state the IDs holding a record are
\* exactly 1..count, count being the number of club records.
C1_SequentialClubIds ==
    /\ clubCount = Cardinality(DOMAIN clubs)
    /\ DOMAIN clubs = 1..clubCount
    /\ Succeeded("create_club") =>
         LET k == Cardinality(DOMAIN pre.clubs) + 1 IN
         /\ k \notin DOMAIN pre.clubs
         /\ DOMAIN clubs = DOMAIN pre.clubs \cup {k}
         /\ \A i \in DOMAIN pre.clubs : clubs[i] = pre.clubs[i]
         /\ clubs[k].owner = last.owner
         /\ block_number > 0 => events[Len(events)].id = k
    /\ (~Idle /\ ~Succeeded("create_club")) => DOMAIN clubs = DOMAIN pre.clubs

\* The second club is created after a membership was recorded in the first.
C1_Witness ==
    /\ Succeeded("create_club")
    /\ DOMAIN clubs = {1, 2}
    /\ pre.members # << >>

\* ---------------------------------------------------------------- C2
\* C2: a call that fails one of the pallet's precondition checks leaves the
\* club map, the club count, the membership map, all balances and the event
\* log exactly as they were before the call.
C2_FailedCheckChangesNothing ==
    (~Idle /\ last.result \in PreconditionErrors) => storage = pre

\* A duplicate add_member fails in a block that already holds an event.
C2_Witness ==
    /\ Called("add_member")
    /\ last.result = "AlreadyExists"
    /\ events # << >>

\* ---------------------------------------------------------------- C3
\* C3: create_club and extend_membership are fee-atomic: when the caller
\* cannot pay the amount due and keep the existential deposit, the call
\* returns the ledger's error, and such a call inserts no club, leaves the
\* count, the membership's expires_at and every balance unchanged and
\* deposits no event.
C3_FeeAtomic ==
    /\ (~Idle /\ last.op \in {"create_club", "extend_membership"}
              /\ last.result \in LedgerErrors) => storage = pre
    /\ (Called("create_club") /\ last.result \notin {"BadOrigin", "ClubIdOverflow"}) =>
         (WithdrawalFails(pre.balances[last.origin], ClubCreationFee)
            <=> last.result \in LedgerErrors)
    /\ (Called("extend_membership")
          /\ last.result \notin {"BadOrigin", "SubscriptionTooLong", "NotFound"}) =>
         LET due == pre.clubs[last.club_id].annual_fee * last.years IN
         due <= BalanceMax =>
            (WithdrawalFails(pre.balances[last.origin], due)
               <=> last.result \in LedgerErrors)

\* create_club is refused with KeepAlive: the caller holds exactly the fee,
\* having paid a membership fee before.
C3_Witness ==
    /\ Called("create_club")
    /\ last.result = "KeepAlive"
    /\ balances[last.origin] = ClubCreationFee

\* ---------------------------------------------------------------- C4
\* C4 as stated: a successful extend_membership sets expires_at to
\* max(old expires_at, now) + per_year * years.
C4_Original ==
    Succeeded("extend_membership") =>
        members[ExtKey].expires_at =
            Max(pre.members[ExtKey].expires_at, pre.block_number)
              + BlocksPerYear * last.years

\* C4 amended: a successful extend_membership sets expires_at to
\* max(old expires_at, now) + per_year * years, clamped to the largest
\* block number: a lapsed membership restarts from now, an active one keeps
\* all of its remaining time.
C4_RenewalArithmetic ==
    Succeeded("extend_membership") =>
        LET old == pre.members[ExtKey].expires_at
            now == pre.block_number
            new == members[ExtKey].expires_at
            added == BlocksPerYear * last.years
        IN  /\ old < now => new = Min(BlockNumberMax, now + added)
            /\ old >= now => new = Min(BlockNumberMax, old + added)

\* One year at block 0 gave one year; one more year, bought half way through
\* it, gives two years.
C4_Witness ==
    /\ Succeeded("extend_membership")
    /\ block_number = 1
    /\ last.years = 1
    /\ pre.members[ExtKey].expires_at = BlocksPerYear
    /\ members[ExtKey].expires_at = 2 * BlocksPerYear

\* ---------------------------------------------------------------- C5
\* C5: for a caller that holds a membership record and can pay, an
\* extend_membership(years) is accepted exactly when years is at most
\* MaxSubscriptionLength and, the membership being active, the whole years
\* it still has plus years is at most MaxSubscriptionLength; otherwise it
\* fails with SubscriptionTooLong.
C5_AcceptedWithinCap ==
    (SignedCall("extend_membership") /\ ExtKey \in DOMAIN pre.members) =>
        LET old == pre.members[ExtKey].expires_at
            now == pre.block_number
            within ==
                /\ last.years <= MaxSubscriptionLength
                /\ old >= now =>
                     ((old - now) \div BlocksPerYear) + last.years
                        <= MaxSubscriptionLength
            due == pre.clubs[last.club_id].annual_fee * last.years
            canPay == ~WithdrawalFails(pre.balances[last.origin], due)
        IN  /\ ~within => last.result = "SubscriptionTooLong"
            /\ (within /\ canPay) => last.result = "Ok"
            /\ last.result = "Ok" => within

\* A membership with MaxSubscriptionLength - 1 whole years left is refused
\* two more years, a request that alone is within the cap.
C5_Witness ==
    /\ SignedCall("extend_membership")
    /\ last.result = "SubscriptionTooLong"
    /\ last.years = 2
    /\ last.years <= MaxSubscriptionLength
    /\ ExtKey \in DOMAIN members
    /\ (members[ExtKey].expires_at - block_number) \div BlocksPerYear
          = MaxSubscriptionLength - 1

\* ---------------------------------------------------------------- C6
\* C6: right after a successful extend_membership at block now, the
\* membership's expires_at is at most MaxSubscriptionLength * per_year
\* blocks ahead of now.
C6_SubscriptionBounded ==
    Succeeded("extend_membership") =>
        members[ExtKey].expires_at - block_number
            <= MaxSubscriptionLength * BlocksPerYear

\* ---------------------------------------------------------------- C7
\* C7: add_member never overwrites a membership: called by the club's owner
\* for a (club, account) that holds a record it fails with AlreadyExists,
\* every add_member for such a pair leaves the membership map as it was, and
\* no call removes a record, so add_member succeeds at most once per pair.
C7_AddMemberNeverOverwrites ==
    /\ (SignedCall("add_member")
          /\ <<last.club_id, last.member_id>> \in DOMAIN pre.members) =>
         /\ last.result # "Ok"
         /\ members = pre.members
         /\ (last.club_id \in DOMAIN pre.clubs
               /\ pre.clubs[last.club_id].owner = last.origin)
               => last.result = "AlreadyExists"
    /\ ~Idle => DOMAIN pre.members \subseteq DOMAIN members

\* The owner adds again a member whose membership was extended meanwhile.
C7_Witness ==
    /\ Called("add_member")
    /\ last.result = "AlreadyExists"
    /\ members[<<last.club_id, last.member_id>>].expires_at > 0

\* ---------------------------------------------------------------- C8
\* C8: transfer_ownership to the caller itself fails with SameOwner, for
\* every caller and every club id, and changes no state.
C8_TransferToSelfFails ==
    (SignedCall("transfer_ownership") /\ last.owner_id = last.origin) =>
        /\ last.result = "SameOwner"
        /\ storage = pre

\* The owner of an existing club transfers it to itself.
C8_Witness ==
    /\ SignedCall("transfer_ownership")
    /\ last.owner_id = last.origin
    /\ last.club_id \in DOMAIN clubs
    /\ clubs[last.club_id].owner = last.origin

\* ---------------------------------------------------------------- C9
\* C9: transfer_ownership by the owner of an existing club to another
\* account succeeds and changes only that club's owner: its name and fee,
\* every other club, the count, every membership and all balances stay.
C9_TransferChangesOnlyOwner ==
    (SignedCall("transfer_ownership")
        /\ last.owner_id # last.origin
        /\ last.club_id \in DOMAIN pre.clubs
        /\ pre.clubs[last.club_id].owner = last.origin) =>
        /\ last.result = "Ok"
        /\ DOMAIN clubs = DOMAIN pre.clubs
        /\ \A c \in DOMAIN clubs :
              clubs[c] = IF c = last.club_id
                         THEN [name |-> pre.clubs[c].name,
                               owner |-> last.owner_id,
                               annual_fee |-> pre.clubs[c].annual_fee]
                         ELSE pre.clubs[c]
        /\ clubCount = pre.clubCount
        /\ members = pre.members
        /\ balances = pre.balances

\* A club with a fee goes to an account that holds an extended membership
\* in it, while a second club exists.
C9_Witness ==
    /\ Succeeded("transfer_ownership")
    /\ clubs[last.club_id].annual_fee # 0
    /\ <<last.club_id, last.owner_id>> \in DOMAIN members
    /\ members[<<last.club_id, last.owner_id>>].expires_at > 0
    /\ Cardinality(DOMAIN clubs) = 2

\* --------------------------------------------------------------- C10
\* C10 as stated: set_annual_fee with the fee the club already has fails
\* with SameFee, whoever calls, and changes no state.
C10_Original ==
    (SignedCall("set_annual_fee")
        /\ last.club_id \in DOMAIN pre.clubs
        /\ last.annual_fee = pre.clubs[last.club_id].annual_fee) =>
        /\ last.result = "SameFee"
        /\ storage = pre

\* C10 amended: set_annual_fee with the fee the club already has changes no
\* state; it fails with SameFee when the caller is the club's owner and with
\* NoPermission when it is another account.
C10_SameFeeFails ==
    (SignedCall("set_annual_fee")
        /\ last.club_id \in DOMAIN pre.clubs
        /\ last.annual_fee = pre.clubs[last.club_id].annual_fee) =>
        /\ storage = pre
        /\ last.result =
              IF pre.clubs[last.club_id].owner = last.origin
              THEN "SameFee" ELSE "NoPermission"

\* The owner sets again a fee that was changed from the initial 0.
C10_Witness ==
    /\ Called("set_annual_fee")
    /\ last.result = "SameFee"
    /\ last.annual_fee # 0

\* --------------------------------------------------------------- C11
\* C11: a successful set_annual_fee changes only the annual_fee of the club
\* it names: that club's owner and name, every other club, the count, every
\* membership's expires_at and every balance are as before the call.
C11_SetFeeChangesOnlyFee ==
    Succeeded("set_annual_fee") =>
        /\ DOMAIN clubs = DOMAIN pre.clubs
        /\ \A c \in DOMAIN clubs :
              clubs[c] = IF c = last.club_id
                         THEN [name |-> pre.clubs[c].name,
                               owner |-> pre.clubs[c].owner,
                               annual_fee |-> last.annual_fee]
                         ELSE pre.clubs[c]
        /\ clubCount = pre.clubCount
        /\ members = pre.members
        /\ balances = pre.balances

\* The fee of a club changes after a member has paid for a year at the old
\* fee, while a second club exists.
C11_Witness ==
    /\ Succeeded("set_annual_fee")
    /\ Cardinality(DOMAIN clubs) = 2
    /\ pre.clubs[last.club_id].annual_fee > 0
    /\ \E a \in Accounts :
          /\ <<last.club_id, a>> \in DOMAIN members
          /\ members[<<last.club_id, a>>].expires_at > 0
          /\ balances[a] < InitialBalance

\* The calls reserved to the owner of the club they name.
OwnerOnlyCalls == {"add_member", "transfer_ownership", "set_annual_fee"}

\* --------------------------------------------------------------- C12
\* C12: add_member, transfer_ownership and set_annual_fee on an existing
\* club succeed only for the owner the club record holds when the call is
\* made: any other caller is refused and changes nothing, the owner is never
\* refused for lack of permission, and a successful transfer_ownership makes
\* the account it names the owner, which the caller then no longer is.
C12_OwnerOnlyMutation ==
    /\ (~Idle /\ last.op \in OwnerOnlyCalls /\ last.origin \in Accounts
              /\ last.club_id \in DOMAIN pre.clubs) =>
         LET owner == pre.clubs[last.club_id].owner IN
         /\ last.result = "Ok" => last.origin = owner
         /\ last.origin # owner =>
               /\ storage = pre
               /\ last.result =
                     IF last.op = "transfer_ownership" /\ last.owner_id = last.origin
                     THEN "SameOwner" ELSE "NoPermission"
         /\ last.origin = owner => last.result # "NoPermission"
    /\ Succeeded("transfer_ownership") =>
         /\ clubs[last.club_id].owner = last.owner_id
         /\ clubs[last.club_id].owner # last.origin

\* Bob, for whom the default club was created, is refused a new member after
\* the club has gone to another account.
C12_Witness ==
    /\ Called("add_member")
    /\ last.origin = Bob
    /\ last.club_id = 1
    /\ clubs[1].owner # Bob
    /\ last.result = "NoPermission"

\* --------------------------------------------------------------- C13
\* C13: a successful create_club(caller, name, owner) inserts the record
\* (name, owner, annual_fee 0) under the new ID and takes exactly
\* ClubCreationFee from the caller: every other balance, the owner's when
\* the owner is not the caller, and the membership map are as before.
C13_CreateClubEffect ==
    Succeeded("create_club") =>
        /\ clubs[pre.clubCount + 1] =
              [name |-> last.name, owner |-> last.owner, annual_fee |-> 0]
        /\ balances = [pre.balances EXCEPT
                          ![last.origin] = pre.balances[last.origin] - ClubCreationFee]
        /\ members = pre.members

\* The caller creates a club for another account that holds funds, while a
\* membership exists.
C13_Witness ==
    /\ Succeeded("create_club")
    /\ last.owner # last.origin
    /\ balances[last.owner] >= ClubCreationFee + ExistentialDeposit
    /\ members # << >>

\* --------------------------------------------------------------- C14
\* C14: create_club succeeds only for the origin RootOrigin accepts (Alice
\* in the mock): called by any other origin it fails with BadOrigin and
\* leaves the clubs, the count and every balance as they were, and no other
\* call adds a club record.
C14_CreateClubPrivileged ==
    /\ (Called("create_club") /\ last.origin # Alice) =>
         /\ last.result = "BadOrigin"
         /\ storage = pre
    /\ (~Idle /\ DOMAIN clubs # DOMAIN pre.clubs) =>
         /\ Succeeded("create_club")
         /\ last.origin = Alice

\* Bob, who could pay the creation fee, is refused while an ID is free.
C14_Witness ==
    /\ Called("create_club")
    /\ last.origin = Bob
    /\ last.result = "BadOrigin"
    /\ ~WithdrawalFails(balances[Bob], ClubCreationFee)
    /\ clubCount < ClubIdMax

\* --------------------------------------------------------------- C15
\* C15: a successful extend_membership(caller, club_id, years) takes exactly
\* annual_fee * years from the caller, annual_fee being the club's fee when
\* the call is made, and changes no other balance; a call that does not
\* succeed leaves expires_at as it was.
C15_ExactFee ==
    /\ Succeeded("extend_membership") =>
         balances = [pre.balances EXCEPT
                       ![last.origin] = pre.balances[last.origin]
                            - pre.clubs[last.club_id].annual_fee * last.years]
    /\ (Called("extend_membership") /\ last.result # "Ok") => members = pre.members

\* --------------------------------------------------------------- C16
\* C16 as stated: the membership add_member creates has expires_at = 0 and,
\* active meaning expires_at >= current clock, is inactive at every clock
\* value.
C16_Original ==
    Succeeded("add_member") =>
        LET new == members[<<last.club_id, last.member_id>>] IN
        /\ new.expires_at = 0
        /\ ~(new.expires_at >= block_number)

\* C16 amended: the membership add_member creates has expires_at = 0 and
\* keeps it until an extend_membership for it succeeds; active meaning
\* expires_at >= current clock, it is inactive at every clock value above 0
\* and active at clock value 0.
C16_FreshMembershipInactive ==
    /\ Succeeded("add_member") =>
         LET new == members[<<last.club_id, last.member_id>>] IN
         /\ new.expires_at = 0
         /\ (new.expires_at >= block_number) <=> block_number = 0
    /\ (~Idle /\ ~Succeeded("extend_membership")) =>
         \A k \in DOMAIN pre.members : members[k] = pre.members[k]

\* A member is added after the genesis block.
C16_Witness ==
    /\ Succeeded("add_member")
    /\ block_number > 0

\* --------------------------------------------------------------- C17
\* C17: a successful add_member(club_id, member) adds exactly the record
\* (club_id, member), with expires_at = 0, and charges nothing: every other
\* membership record, every club record, the count and every balance are as
\* before the call.
C17_AddMemberEffect ==
    Succeeded("add_member") =>
        LET key == <<last.club_id, last.member_id>> IN
        /\ key \notin DOMAIN pre.members
        /\ DOMAIN members = DOMAIN pre.members \cup {key}
        /\ members[key] = [expires_at |-> 0]
        /\ \A k \in DOMAIN pre.members : members[k] = pre.members[k]
        /\ balances = pre.balances
        /\ clubs = pre.clubs
        /\ clubCount = pre.clubCount

\* An account holding funds joins a club that has a fee and a member with a
\* running subscription.
C17_Witness ==
    /\ Succeeded("add_member")
    /\ clubs[last.club_id].annual_fee > 0
    /\ balances[last.member_id] > ExistentialDeposit
    /\ \E k \in DOMAIN pre.members : pre.members[k].expires_at > 0

\* --------------------------------------------------------------- C18
\* The event a successful call is to deposit, with the values it carries.
ExpectedEvent ==
    CASE last.op = "create_club" ->
            [kind |-> "ClubCreated", id |-> pre.clubCount + 1, owner |-> last.owner]
      [] last.op = "add_member" ->
            [kind |-> "MemberAdded", id |-> last.club_id, member_id |-> last.member_id]
      [] last.op = "extend_membership" ->
            [kind |-> "MembershipExtended", id |-> last.club_id,
             member_id |-> last.origin, expires_at |-> members[ExtKey].expires_at]
      [] last.op = "transfer_ownership" ->
            [kind |-> "OwnershipTransferred", id |-> last.club_id,
             owner |-> last.owner_id]
      [] last.op = "set_annual_fee" ->
            [kind |-> "AnnualFeeChanged", id |-> last.club_id,
             annual_fee |-> last.annual_fee]

\* C18 as stated: every successful call appends exactly one event, of its
\* kind and with the affected values, every failed call appends none, and
\* no InsufficientFunds event is ever in the log.
C18_Original ==
    /\ (~Idle /\ last.result = "Ok") => events = Append(pre.events, ExpectedEvent)
    /\ (~Idle /\ last.result # "Ok") => events = pre.events
    /\ \A i \in 1..Len(events) : events[i].kind # "InsufficientFunds"

\* C18 amended: a successful call made at a block number above 0 appends
\* exactly one event, of its kind and with the affected values; a successful
\* call made in the genesis block, like every failed call, leaves the event
\* log as it was; no InsufficientFunds event is ever in the log.
C18_OneEventPerSuccess ==
    /\ (~Idle /\ last.result = "Ok") =>
         events = IF pre.block_number = 0
                  THEN pre.events
                  ELSE Append(pre.events, ExpectedEvent)
    /\ (~Idle /\ last.result # "Ok") => events = pre.events
    /\ \A i \in 1..Len(events) : events[i].kind # "InsufficientFunds"

\* A paid extension is the second successful call of its block.
C18_Witness ==
    /\ Succeeded("extend_membership")
    /\ Len(events) = 2
    /\ events[2].kind = "MembershipExtended"
    /\ events[2].expires_at > block_number
    /\ balances[last.origin] < pre.balances[last.origin]

\* --------------------------------------------------------------- C19
\* C19: no orphaned membership: in every reachable state each membership
\* record (club_id, account) belongs to a club_id that holds a club record.
C19_NoOrphanedMembership ==
    \A k \in DOMAIN members : k[1] \in DOMAIN clubs

\* The owner of a club asks to add a member to a club ID that holds no
\* record, while a membership exists in the owner's club.
C19_Witness ==
    /\ Called("add_member")
    /\ last.result = "NotFound"
    /\ members # << >>
    /\ \E c \in DOMAIN clubs : clubs[c].owner = last.origin

C21_ExpirationSaturates ==
    (SignedCall("extend_membership") /\ ExtKey \in DOMAIN pre.members) =>
        LET old == pre.members[ExtKey].expires_at
            now == pre.block_number
            base == Max(old, now)
            exact == base + BlocksPerYear * last.years
            due == pre.clubs[last.club_id].annual_fee * last.years
        IN  /\ last.result = "Ok" =>
                  /\ members[ExtKey].expires_at >= base
                  /\ members[ExtKey].expires_at <= BlockNumberMax
                  /\ members[ExtKey].expires_at =
                        IF exact > BlockNumberMax THEN BlockNumberMax ELSE exact
            /\ (exact > BlockNumberMax
                  /\ last.result \notin {"SubscriptionTooLong"} \cup LedgerErrors
                  /\ due <= BalanceMax) => last.result = "Ok"

\* A paid renewal whose exact expiry lies beyond the largest block number.
C21_Witness ==
    /\ Succeeded("extend_membership")
    /\ Max(pre.members[ExtKey].expires_at, pre.block_number)
          + BlocksPerYear * last.years > BlockNumberMax
    /\ members[ExtKey].expires_at = BlockNumberMax
    /\ balances[last.origin] < pre.balances[last.origin]

\* --------------------------------------------------------------- C22
\* C22: the fee and the cap of extend_membership are computed with
\* clamp-on-overflow.  For a caller that holds a membership record and asks
\* for at most MaxSubscriptionLength years the call never panics; when the
\* remaining years plus years, clamped, is within the cap, the amount
\* annual_fee * years, clamped to the largest balance, is what the ledger is
\* asked for: the call returns the ledger's answer for that amount and the
\* caller's balance is what the ledger leaves.
C22_FeeAndCapSaturate ==
    (SignedCall("extend_membership")
        /\ ExtKey \in DOMAIN pre.members
        /\ last.years <= MaxSubscriptionLength) =>
        LET old == pre.members[ExtKey].expires_at
            now == pre.block_number
            sum == saturating_add(saturating_sub(old, now) \div BlocksPerYear,
                                  last.years, BlockNumberMax)
            due == saturating_mul(pre.clubs[last.club_id].annual_fee,
                                  last.years, BalanceMax)
            w == withdraw(pre.balances[last.origin], due)
        IN  /\ last.result # "Panic"
            /\ (old < now \/ sum <= MaxSubscriptionLength) =>
                  /\ last.result = w.err
                  /\ balances[last.origin] = w.free

\* --------------------------------------------------------------- C23
\* C23 as stated: extend_membership by a caller that holds no membership
\* record for the club fails with NotFound, whatever years is and whether
\* or not the club exists.
C23_Original ==
    (SignedCall("extend_membership") /\ ExtKey \notin DOMAIN pre.members) =>
        last.result = "NotFound"

\* C23 amended: extend_membership by a caller that holds no membership
\* record for the club changes nothing, whether or not the club exists; it
\* fails with NotFound when years is at most MaxSubscriptionLength and with
\* SubscriptionTooLong when years is larger.
C23_NoRecordFails ==
    (SignedCall("extend_membership") /\ ExtKey \notin DOMAIN pre.members) =>
        /\ storage = pre
        /\ last.result =
              IF last.years <= MaxSubscriptionLength
              THEN "NotFound" ELSE "SubscriptionTooLong"

\* A member of one club asks to extend in another club, which exists.
C23_Witness ==
    /\ Called("extend_membership")
    /\ last.result = "NotFound"
    /\ last.club_id \in DOMAIN clubs
    /\ \E k \in DOMAIN members : k[2] = last.origin /\ k[1] # last.club_id

\* --------------------------------------------------------------- C24
\* C24 as stated: in every reachable state the next ID create_club computes
\* holds no club record, and create_club never fails with ClubIdOverflow.
C24_Original ==
    /\ next_id \notin DOMAIN clubs
    /\ Called("create_club") => last.result # "ClubIdOverflow"

\* C24 amended: while the club count is below the largest ClubId the next
\* ID holds no club record and create_club does not fail with
\* ClubIdOverflow; once the count has reached the largest ClubId the next ID
\* is that of the last club, and create_club by the privileged caller fails
\* with ClubIdOverflow and changes nothing.
C24_NextIdFree ==
    /\ clubCount < ClubIdMax => next_id \notin DOMAIN clubs
    /\ clubCount = ClubIdMax => next_id = clubCount
    /\ (Called("create_club") /\ last.origin = Alice) =>
         (last.result = "ClubIdOverflow" <=> pre.clubCount = ClubIdMax)
    /\ (Called("create_club") /\ last.result = "ClubIdOverflow") => storage = pre

\* The privileged caller asks for one club more than there are IDs.
C24_Witness ==
    /\ Called("create_club")
    /\ last.result = "ClubIdOverflow"
    /\ DOMAIN clubs = 1..ClubIdMax

\* --------------------------------------------------------------- C25
\* C25 as stated: when annual_fee = 0 or years = 0, extend_membership by an
\* account that holds a membership record succeeds, whatever its balance,
\* and leaves every balance unchanged.
C25_Original ==
    (SignedCall("extend_membership")
        /\ ExtKey \in DOMAIN pre.members
        /\ (pre.clubs[last.club_id].annual_fee = 0 \/ last.years = 0)) =>
        /\ last.result = "Ok"
        /\ balances = pre.balances

\* C25 amended: when annual_fee = 0 or years = 0, extend_membership by an
\* account that holds a membership record leaves every balance unchanged and
\* its outcome does not depend on the caller's balance: it succeeds when
\* years is at most MaxSubscriptionLength and, the membership being active,
\* the whole years it still has plus years is at most MaxSubscriptionLength,
\* and fails with SubscriptionTooLong otherwise.
C25_ZeroDueSucceeds ==
    (SignedCall("extend_membership")
        /\ ExtKey \in DOMAIN pre.members
        /\ (pre.clubs[last.club_id].annual_fee = 0 \/ last.years = 0)) =>
        LET old == pre.members[ExtKey].expires_at
            now == pre.block_number
            within ==
                /\ last.years <= MaxSubscriptionLength
                /\ old >= now =>
                     ((old - now) \div BlocksPerYear) + last.years
                        <= MaxSubscriptionLength
        IN  /\ balances = pre.balances
            /\ last.result = IF within THEN "Ok" ELSE "SubscriptionTooLong"

\* An account without funds renews for zero years in a club that has a fee.
C25_Witness ==
    /\ Succeeded("extend_membership")
    /\ last.years = 0
    /\ clubs[last.club_id].annual_fee > 0
    /\ balances[last.origin] = 0

\* --------------------------------------------------------------- C26
\* C26: no call stores a smaller expires_at than the one a membership
\* record held before it, and a successful extend_membership of one year or
\* more stores a larger one, unless the record was already at the largest
\* block number.
C26_ExpiryNeverDecreases ==
    /\ ~Idle =>
         \A k \in DOMAIN pre.members :
            /\ k \in DOMAIN members
            /\ members[k].expires_at >= pre.members[k].expires_at
    /\ (Succeeded("extend_membership") /\ last.years >= 1) =>
         \/ members[ExtKey].expires_at > pre.members[ExtKey].expires_at
         \/ pre.members[ExtKey].expires_at = BlockNumberMax

\* A membership that expires at the largest block number is extended by a
\* year and stays there.
C26_Witness ==
    /\ Succeeded("extend_membership")
    /\ last.years >= 1
    /\ pre.members[ExtKey].expires_at = BlockNumberMax
    /\ members[ExtKey].expires_at = BlockNumberMax

\* --------------------------------------------------------------- C27
\* C27: extend_membership with years = 0 changes nothing of a subscription:
\* for a lapsed as for an active membership the stored expires_at and the
\* caller's balance are as before the call, so a membership that was not
\* active (expires_at >= now) before the call is not active after it.
C27_ZeroYearsNoOp ==
    (Succeeded("extend_membership") /\ last.years = 0) =>
        /\ members[ExtKey].expires_at = pre.members[ExtKey].expires_at
        /\ balances = pre.balances
        /\ (members[ExtKey].expires_at >= block_number)
              <=> (pre.members[ExtKey].expires_at >= pre.block_number)
====
